---- MODULE Spec2Model ----
(***************************************************************************)
(* Model of src/app.py: the batch gene-signature analysis.                 *)
(*                                                                         *)
(* Numbers: fold changes and the fold-change threshold are integers in     *)
(* tenths (1.5 is 15), p-values in hundredths (0.2 is 20), the consistency *)
(* threshold is the slider's integer percentage.  A matrix cell is <<v>>   *)
(* for a present value v and <<>> for pandas' missing value (NaN).         *)
(* A cell-line name is an integer i (the i-th csv file of the drug); file  *)
(* names of one drug are taken to give distinct cell-line names.  A table  *)
(* is keyed by (gene_id, gene_symbol): one row per identity.               *)
(***************************************************************************)
EXTENDS Integers, Sequences, FiniteSets, TLC

VARIABLES
    consistency_threshold,   \* sidebar slider, percent (line 29)
    batch,                   \* number of sub-zips of the uploaded archive
    drug,                    \* index of the sub-zip the batch loop is at
    outcome,                 \* per drug: "pending", "analysed" or "skipped"
    files_left,              \* csv files of the current drug still to read
    drug_warnings,           \* st.warning kinds emitted for the current drug
    pc,                      \* position of the script
    cell_line_data,          \* dict cell line -> table, in insertion order
    merged_df,               \* the merged expression matrix
    min_consistent,
    consistently_up_genes,   \* pandas Index, as a sequence of identities
    consistently_down_genes,
    consistent_genes,        \* the union handed to clustering
    linkage_runs,            \* number of linkage computations made
    report_lines,
    calls,                   \* gene lists sent to the external source, per label
    enr,                     \* what the external source answered, per label
    table_view,              \* rows handed to st.dataframe, per label
    bar_view                 \* rows handed to barplot, per label

vars == <<consistency_threshold, batch, drug, outcome, files_left,
          drug_warnings, pc, cell_line_data, merged_df, min_consistent,
          consistently_up_genes, consistently_down_genes, consistent_genes,
          linkage_runs, report_lines, calls, enr, table_view, bar_view>>

(***************************************************************************)
(* Bounds of the model and constants of the program.                       *)
(***************************************************************************)
MaxDrugs == 2        \* sub-zips in the uploaded archive
MaxFiles == 2        \* csv files in one sub-zip
MaxCellLines == 3    \* cell lines of the analysed drug (SpecAnalysis)
RowBudget == 2       \* rows over all tables of the analysed drug (SpecAnalysis)
ManyLines == 90      \* cell lines of the wide drug (SpecManyLines)

log2fc_threshold == 10   \* slider default 1.0, in tenths
pvalue_threshold == 20   \* slider default 0.2, in hundredths
TopN == 10               \* head(10)

\* The slider's values: 30..100 in steps of 10.
ConsistencyChoices == {30, 40, 50, 60, 70, 80, 90, 100}

\* Gene identities (ID_geneid, Name_GeneSymbol), listed in lexicographic order:
\* gene 1 is known under two symbols.
IdentityOrder == << <<1, "A">>, <<1, "B">>, <<2, "A">> >>

ToSet(s) == {s[i] : i \in 1..Len(s)}

Identities == ToSet(IdentityOrder)

\* Fold changes: above, at, and below the threshold and its negative.
Values == {-15, -10, 10, 15}

AllColumns == {"ID_geneid", "Name_GeneSymbol", "Value_LogDiffExp", "Significance_pvalue"}

RequiredColumns == {"ID_geneid", "Name_GeneSymbol", "Value_LogDiffExp"}

Missing == <<>>

Present(c) == Len(c) = 1

\* An Index over the given identities, in sorted order.
SortedIndex(keys) == SelectSeq(IdentityOrder, LAMBDA k : k \in keys)

\* A frame: the value columns' names, the row index, and per row the cells
\* of the value columns in order.
EmptyFrame == [columns |-> <<>>, index |-> <<>>, row |-> <<>>]

MissingRow(n) == [j \in 1..n |-> Missing]

\* A frame's rows, and the list of frames, are held as tables: f, evaluated
\* once for every key when it is built (f @@ <<>> is f).
Stored(f) == f @@ <<>>

\* The cell of row k in the column named c.
Cell(frame, k, c) ==
    frame.row[k][CHOOSE j \in 1..Len(frame.columns) : frame.columns[j] = c]

(***************************************************************************)
(* Merge (lines 39-46).                                                    *)
(***************************************************************************)
\* temp = df[[id, symbol, fold change]].copy().rename(fold change -> cell_line)
RenameColumn(cell_line, df) ==
    [columns |-> <<cell_line>>,
     index   |-> SortedIndex(DOMAIN df.rows),
     row     |-> [k \in DOMAIN df.rows |-> << <<df.rows[k].value>> >>]]

\* Faulty variant of Merge: an inner join.
MergeInner(left, right) ==
    LET keys == ToSet(left.index) \cap ToSet(right.index)
    IN [columns |-> left.columns \o right.columns,
        index   |-> SortedIndex(keys),
        row     |-> [k \in keys |-> left.row[k] \o right.row[k]]]

\* Faulty variant of Merge: a join on ID_geneid alone, the right table's symbol winning.
MergeOnGeneId(left, right) ==
    LET lk == ToSet(left.index)
        rk == ToSet(right.index)
        keys == rk \cup {k \in lk : \A r \in rk : r[1] # k[1]}
        LeftRow(k) == IF \E l \in lk : l[1] = k[1]
                      THEN left.row[CHOOSE l \in lk : l[1] = k[1]]
                      ELSE MissingRow(Len(left.columns))
    IN [columns |-> left.columns \o right.columns,
        index   |-> SortedIndex(keys),
        row     |-> [k \in keys |->
                        LeftRow(k) \o (IF k \in rk THEN right.row[k]
                                       ELSE MissingRow(Len(right.columns)))]]

\* pd.merge(left, right, on=[id, symbol], how='outer')
Merge(left, right) ==
    LET lk == ToSet(left.index)
        rk == ToSet(right.index)
        keys == lk \cup rk
    IN [columns |-> left.columns \o right.columns,
        index   |-> SortedIndex(keys),
        row     |-> Stored([k \in keys |->
                        (IF k \in lk THEN left.row[k] ELSE MissingRow(Len(left.columns)))
                        \o (IF k \in rk THEN right.row[k] ELSE MissingRow(Len(right.columns)))])]

\* reduce's loop: the accumulator holds the first Len(acc.columns) frames
\* merged (each frame brings one column) and takes the next one in
RECURSIVE Fold(_, _)
Fold(acc, gene_dfs) ==
    IF Len(acc.columns) = Len(gene_dfs) THEN acc
    ELSE Fold(Merge(acc, gene_dfs[Len(acc.columns) + 1]), gene_dfs)

\* reduce(lambda left, right: pd.merge(...), gene_dfs)
Reduce(gene_dfs) == Fold(gene_dfs[1], gene_dfs)

GeneDfs(data) == Stored([i \in 1..Len(data) |-> RenameColumn(data[i].name, data[i].df)])

(***************************************************************************)
(* Filter (lines 49-56).                                                   *)
(***************************************************************************)
RECURSIVE Pow2(_)
Pow2(e) == IF e = 0 THEN 1 ELSE 2 * Pow2(e - 1)

RECURSIVE Pow2Mod100(_)
Pow2Mod100(e) == IF e = 0 THEN 1 ELSE (2 * Pow2Mod100(e - 1)) % 100

\* consistency_threshold / 100 is a double m * 2^-FractionBits(pct), m of 53 bits.
FractionBits(pct) == IF pct >= 50 THEN 53 ELSE 54

\* 100 * m - pct * 2^FractionBits(pct): the rounding error of the quotient,
\* in units of 1 / (100 * 2^FractionBits(pct)); m is the nearest integer.
QuotientError(pct) ==
    IF pct = 100 THEN 0
    ELSE LET x == (pct * Pow2Mod100(FractionBits(pct))) % 100
         IN IF x <= 50 THEN 0 - x ELSE 100 - x

RECURSIVE FloorLog2(_)
FloorLog2(q) == IF q < 2 THEN 0 ELSE 1 + FloorLog2(q \div 2)

\* Exponent of the doubles just below the integer q >= 1.
ExponentBelow(q) ==
    IF Pow2(FloorLog2(q)) = q THEN FloorLog2(q) - 1 ELSE FloorLog2(q)

\* Faulty variant of MinConsistent: rounding to the nearest count.
MinConsistentRounded(n, pct) == (n * pct + 50) \div 100

\* int(cell_line_count * (consistency_threshold / 100)) in double arithmetic:
\* the product of n and the rounded quotient is rounded to 53 bits (ties to
\* even), then truncated.  It is below the exact floor only when n*pct/100 is
\* an integer q, the quotient was rounded down, and the product lies more
\* than half a unit in the last place below q.
MinConsistent(n, pct) ==
    LET q == (n * pct) \div 100
        r == QuotientError(pct)
    IN IF (n * pct) % 100 # 0 \/ r >= 0 \/ q = 0 THEN q
       ELSE IF 2 * n * (0 - r) > 100 * Pow2(FractionBits(pct) + ExponentBelow(q) - 52)
            THEN q - 1 ELSE q

\* merged_df > log2fc_threshold, one cell (a missing value compares False)
IsUp(c) == Present(c) /\ c[1] > log2fc_threshold

\* merged_df < -log2fc_threshold, one cell
IsDown(c) == Present(c) /\ c[1] < 0 - log2fc_threshold

\* (merged_df > t).sum(axis=1), one row
UpCount(frame, k) == Cardinality({j \in 1..Len(frame.columns) : IsUp(frame.row[k][j])})

DownCount(frame, k) == Cardinality({j \in 1..Len(frame.columns) : IsDown(frame.row[k][j])})

\* mask[mask >= min_consistent].index
ConsistentlyUp(frame, m) == SelectSeq(frame.index, LAMBDA k : UpCount(frame, k) >= m)

ConsistentlyDown(frame, m) == SelectSeq(frame.index, LAMBDA k : DownCount(frame, k) >= m)

(***************************************************************************)
(* Heatmap (lines 68-100).                                                 *)
(***************************************************************************)
\* Faulty variant of IndexUnion: the two indexes appended.
IndexAppend(a, b) == a \o b

\* Index.union: the sorted distinct identities of both indexes
IndexUnion(a, b) == SortedIndex(ToSet(a) \cup ToSet(b))

\* merged_df.loc[consistent_genes].fillna(0)
HeatmapData(frame, genes) ==
    [columns |-> frame.columns,
     index   |-> genes,
     row     |-> [k \in ToSet(genes) |->
                     [j \in 1..Len(frame.columns) |->
                         IF Present(frame.row[k][j]) THEN frame.row[k][j] ELSE <<0>>]]]

\* Faulty variant of IsEmpty: a single row counts as empty too.
IsEmptyBelowTwo(h) == Len(h.index) < 2 \/ Len(h.columns) = 0

\* DataFrame.empty: an axis of length 0
IsEmpty(h) == Len(h.index) = 0 \/ Len(h.columns) = 0

\* linkage(pdist(heatmap_data, 'correlation')) raises ValueError on fewer than
\* two rows (an empty distance matrix) and on a constant row (its correlation
\* distance is not finite).
RowLinkageRaises(h) ==
    \/ Len(h.index) < 2
    \/ \E k \in ToSet(h.index) : \A i, j \in 1..Len(h.columns) : h.row[k][i] = h.row[k][j]

\* linkage(pdist(heatmap_data.T, 'correlation')): the same over the columns
ColLinkageRaises(h) ==
    \/ Len(h.columns) < 2
    \/ \E j \in 1..Len(h.columns) : \A k, l \in ToSet(h.index) : h.row[k][j] = h.row[l][j]

(***************************************************************************)
(* Enrichment (lines 105-137).                                             *)
(***************************************************************************)
Labels == {"Upregulated", "Downregulated"}

Min(a, b) == IF a <= b THEN a ELSE b

\* df.head(n)
HeadRows(rows, n) == SubSeq(rows, 1, Min(n, Len(rows)))

\* The place of a row in an ascending sequence: after the rows not above it.
RECURSIVE Insert(_, _)
Insert(row, sorted) ==
    IF sorted = <<>> THEN <<row>>
    ELSE IF sorted[Len(sorted)].AdjP <= row.AdjP THEN Append(sorted, row)
    ELSE Append(Insert(row, SubSeq(sorted, 1, Len(sorted) - 1)), sorted[Len(sorted)])

\* enr.results.sort_values('Adjusted P-value'): ascending; rows of equal value
\* keep the source's order (the sort of so few rows is an insertion sort)
RECURSIVE SortValues(_)
SortValues(rows) ==
    IF rows = <<>> THEN <<>>
    ELSE Insert(rows[Len(rows)], SortValues(SubSeq(rows, 1, Len(rows) - 1)))

\* The rows of a result whose adjusted p-values are ps, in the source's order.
ResultRows(ps) == [i \in 1..Len(ps) |-> [Term |-> i, AdjP |-> ps[i]]]

\* What the external source can answer: no row, two rows out of order, and
\* more rows than the top-N, out of order.
SourceResults ==
    {ResultRows(<<>>), ResultRows(<<4, 1>>),
     ResultRows(<<12, 11, 10, 9, 8, 7, 6, 5, 4, 3, 2, 1>>)}

NotCalled == [status |-> "not_called", results |-> <<>>]

SourceOutcomes ==
    {[status |-> "raised", results |-> <<>>]}
        \cup {[status |-> "returned", results |-> r] : r \in SourceResults}

\* One line of the report.
Line(kind, label, n, rows) == [kind |-> kind, label |-> label, n |-> n, rows |-> rows]

\* symbols = [gene[1] for gene in gene_set]
Symbols(gene_set) == [i \in 1..Len(gene_set) |-> gene_set[i][2]]

EmptyViews == [l \in Labels |-> <<>>]

(***************************************************************************)
(* The csv files a sub-zip can hold (lines 188-197).                       *)
(***************************************************************************)
Row(v, p) == [value |-> v, pvalue |-> p]

Csv(columns, rows) == [columns |-> columns, rows |-> rows]

G1 == <<1, "A">>

G2 == <<2, "A">>

SampleFiles ==
    {Csv(AllColumns, <<>>),
     Csv(AllColumns, (G1 :> Row(15, 5)) @@ (G2 :> Row(-15, 5))),
     Csv(AllColumns, (G1 :> Row(-15, 5)) @@ (G2 :> Row(10, 5))),
     Csv(AllColumns, (G1 :> Row(10, 5)) @@ (G2 :> Row(-15, 5))),
     Csv(AllColumns, (G1 :> Row(15, 5)) @@ (G2 :> Row(15, 30))),
     Csv(AllColumns \ {"Value_LogDiffExp"}, (G1 :> Row(0, 5))),
     Csv(AllColumns \ {"Significance_pvalue"}, (G1 :> Row(15, 0)))}

\* df[df['Significance_pvalue'] <= pvalue_threshold]
FilterSignificant(df) ==
    LET keep == {k \in DOMAIN df.rows : df.rows[k].pvalue <= pvalue_threshold}
    IN [columns |-> df.columns, rows |-> [k \in keep |-> df.rows[k]]]

Entry(name, df) == [name |-> name, df |-> df]

(***************************************************************************)
(* The state after construction: an archive has been uploaded.             *)
(***************************************************************************)
NoRun ==
    /\ cell_line_data = <<>>
    /\ merged_df = EmptyFrame
    /\ min_consistent = 0
    /\ consistently_up_genes = <<>>
    /\ consistently_down_genes = <<>>
    /\ consistent_genes = <<>>
    /\ linkage_runs = 0
    /\ report_lines = <<>>
    /\ calls = [l \in Labels |-> <<>>]
    /\ enr = [l \in Labels |-> NotCalled]
    /\ table_view = EmptyViews
    /\ bar_view = EmptyViews

Init ==
    /\ consistency_threshold \in ConsistencyChoices
    /\ batch \in 0..MaxDrugs
    /\ drug = 0
    /\ outcome = [d \in 1..batch |-> "pending"]
    /\ files_left = 0
    /\ drug_warnings = {}
    /\ pc = "upload"
    /\ NoRun

(***************************************************************************)
(* The batch loop (lines 163-202).                                         *)
(***************************************************************************)
\* line 174: no sub-zip in the archive
NoSubzips ==
    /\ pc = "upload"
    /\ batch = 0
    /\ pc' = "done"
    /\ UNCHANGED <<consistency_threshold, batch, drug, outcome, files_left,
                   drug_warnings, cell_line_data, merged_df, min_consistent,
                   consistently_up_genes, consistently_down_genes, consistent_genes,
                   linkage_runs, report_lines, calls, enr, table_view, bar_view>>

\* lines 177-186: the loop takes the next sub-zip and lists its csv files;
\* the previous drug's run_analysis has returned and its locals are gone
NextDrug ==
    /\ pc \in {"upload", "next"}
    /\ drug < batch
    /\ drug' = drug + 1
    /\ files_left' \in 0..MaxFiles
    /\ drug_warnings' = {}
    /\ pc' = "load"
    /\ cell_line_data' = <<>>
    /\ merged_df' = EmptyFrame
    /\ min_consistent' = 0
    /\ consistently_up_genes' = <<>>
    /\ consistently_down_genes' = <<>>
    /\ consistent_genes' = <<>>
    /\ linkage_runs' = 0
    /\ report_lines' = <<>>
    /\ calls' = [l \in Labels |-> <<>>]
    /\ enr' = [l \in Labels |-> NotCalled]
    /\ table_view' = EmptyViews
    /\ bar_view' = EmptyViews
    /\ UNCHANGED <<consistency_threshold, batch, outcome>>

RunUnchanged ==
    UNCHANGED <<merged_df, min_consistent, consistently_up_genes,
                consistently_down_genes, consistent_genes, linkage_runs,
                report_lines, calls, enr, table_view, bar_view>>

\* line 191: a file name without " - " is passed over
SkipFile ==
    /\ pc = "load"
    /\ files_left > 0
    /\ files_left' = files_left - 1
    /\ UNCHANGED <<consistency_threshold, batch, drug, outcome, drug_warnings,
                   pc, cell_line_data>>
    /\ RunUnchanged

\* lines 193, 196-197: pd.read_csv raises; the file is reported and passed over
LoadFails ==
    /\ pc = "load"
    /\ files_left > 0
    /\ files_left' = files_left - 1
    /\ drug_warnings' = drug_warnings \cup {"failed_to_load"}
    /\ UNCHANGED <<consistency_threshold, batch, drug, outcome, pc, cell_line_data>>
    /\ RunUnchanged

\* lines 192-197: the file is read and filtered by significance; a file without
\* the significance column raises KeyError inside the try
LoadCsv ==
    /\ pc = "load"
    /\ files_left > 0
    /\ files_left' = files_left - 1
    /\ \E df \in SampleFiles :
          IF "Significance_pvalue" \in df.columns
          THEN /\ cell_line_data' = Append(cell_line_data, Entry(files_left, FilterSignificant(df)))
               /\ UNCHANGED drug_warnings
          ELSE /\ drug_warnings' = drug_warnings \cup {"failed_to_load"}
               /\ UNCHANGED cell_line_data
    /\ UNCHANGED <<consistency_threshold, batch, drug, outcome, pc>>
    /\ RunUnchanged

\* lines 199-202 and 35-36: run_analysis is entered, or the drug is skipped
Dispatch ==
    /\ pc = "load"
    /\ files_left = 0
    /\ IF cell_line_data # <<>>
       THEN /\ report_lines' = <<Line("summary", "", drug, <<>>)>>
            /\ pc' = "merge"
            /\ UNCHANGED <<outcome, drug_warnings>>
       ELSE /\ drug_warnings' = drug_warnings \cup {"no_valid_cell_line_data"}
            /\ outcome' = [outcome EXCEPT ![drug] = "skipped"]
            /\ pc' = "next"
            /\ UNCHANGED report_lines
    /\ UNCHANGED <<consistency_threshold, batch, drug, files_left, cell_line_data,
                   merged_df, min_consistent, consistently_up_genes,
                   consistently_down_genes, consistent_genes, linkage_runs,
                   calls, enr, table_view, bar_view>>

\* the loop is over
Finish ==
    /\ pc = "next"
    /\ drug = batch
    /\ pc' = "done"
    /\ UNCHANGED <<consistency_threshold, batch, drug, outcome, files_left,
                   drug_warnings, cell_line_data, merged_df, min_consistent,
                   consistently_up_genes, consistently_down_genes, consistent_genes,
                   linkage_runs, report_lines, calls, enr, table_view, bar_view>>

(***************************************************************************)
(* run_analysis (lines 34-156).  An exception nobody catches ends the      *)
(* script: pc = "raised".                                                  *)
(***************************************************************************)
LacksRequired(data) ==
    \E i \in 1..Len(data) : ~(RequiredColumns \subseteq data[i].df.columns)

\* lines 39-46: df[[...]] raises KeyError on a table without a required column
RunMerge ==
    /\ pc = "merge"
    /\ IF LacksRequired(cell_line_data)
       THEN /\ pc' = "raised"
            /\ UNCHANGED merged_df
       ELSE /\ merged_df' = Reduce(GeneDfs(cell_line_data))
            /\ pc' = "filter"
    /\ UNCHANGED <<consistency_threshold, batch, drug, outcome, files_left,
                   drug_warnings, cell_line_data, min_consistent,
                   consistently_up_genes, consistently_down_genes, consistent_genes,
                   linkage_runs, report_lines, calls, enr, table_view, bar_view>>

\* lines 49-65
RunFilter ==
    /\ pc = "filter"
    /\ LET m == MinConsistent(Len(cell_line_data), consistency_threshold)
           up == ConsistentlyUp(merged_df, m)
           down == ConsistentlyDown(merged_df, m)
       IN /\ min_consistent' = m
          /\ consistently_up_genes' = up
          /\ consistently_down_genes' = down
          /\ report_lines' = report_lines \o
                <<Line("total", "", Len(merged_df.index), <<>>),
                  Line("up_count", "", Len(up), <<>>),
                  Line("down_count", "", Len(down), <<>>)>>
    /\ pc' = "heatmap"
    /\ UNCHANGED <<consistency_threshold, batch, drug, outcome, files_left,
                   drug_warnings, cell_line_data, merged_df, consistent_genes,
                   linkage_runs, calls, enr, table_view, bar_view>>

\* lines 68-100: the row linkage, then the column linkage; a ValueError of
\* either leaves run_analysis
RunHeatmap ==
    /\ pc = "heatmap"
    /\ LET genes == IndexUnion(consistently_up_genes, consistently_down_genes)
           heatmap_data == HeatmapData(merged_df, genes)
       IN /\ consistent_genes' = genes
          /\ IF ~IsEmpty(heatmap_data)
             THEN /\ linkage_runs' = IF RowLinkageRaises(heatmap_data) THEN 1 ELSE 2
                  /\ pc' = IF RowLinkageRaises(heatmap_data) \/ ColLinkageRaises(heatmap_data)
                           THEN "raised" ELSE "enrich_up"
                  /\ UNCHANGED <<drug_warnings, report_lines>>
             ELSE /\ drug_warnings' = drug_warnings \cup {"no_consistent_genes"}
                  /\ report_lines' = Append(report_lines, Line("no_consistent_genes", "", 0, <<>>))
                  /\ pc' = "enrich_up"
                  /\ UNCHANGED linkage_runs
    /\ UNCHANGED <<consistency_threshold, batch, drug, outcome, files_left,
                   cell_line_data, merged_df, min_consistent, consistently_up_genes,
                   consistently_down_genes, calls, enr, table_view, bar_view>>

\* Faulty variant of RunEnrichment: no try/except around the call.
RunEnrichmentUncaught(gene_set, label, after) ==
    LET header == Append(report_lines, Line("header", label, 0, <<>>))
    IN IF Len(gene_set) = 0
       THEN /\ report_lines' = Append(header, Line("no_genes", label, 0, <<>>))
            /\ pc' = after
            /\ UNCHANGED <<calls, enr, table_view, bar_view>>
       ELSE \E answer \in SourceOutcomes :
            /\ calls' = [calls EXCEPT ![label] = Append(@, Symbols(gene_set))]
            /\ enr' = [enr EXCEPT ![label] = answer]
            /\ IF answer.status = "raised"
               THEN /\ report_lines' = header
                    /\ pc' = "raised"
                    /\ UNCHANGED <<table_view, bar_view>>
               ELSE IF answer.results = <<>>
               THEN /\ report_lines' = Append(header, Line("no_enrichment", label, 0, <<>>))
                    /\ pc' = after
                    /\ UNCHANGED <<table_view, bar_view>>
               ELSE LET top == HeadRows(SortValues(answer.results), TopN)
                    IN /\ table_view' = [table_view EXCEPT ![label] = HeadRows(answer.results, TopN)]
                       /\ bar_view' = [bar_view EXCEPT ![label] = top]
                       /\ report_lines' = header \o
                             <<Line("top", label, 0, top), Line("newline", label, 0, <<>>)>>
                       /\ pc' = after

\* Faulty variant of RunEnrichment: no test for an empty gene set.
RunEnrichmentUnguarded(gene_set, label, after) ==
    LET header == Append(report_lines, Line("header", label, 0, <<>>))
    IN \E answer \in SourceOutcomes :
            /\ calls' = [calls EXCEPT ![label] = Append(@, Symbols(gene_set))]
            /\ enr' = [enr EXCEPT ![label] = answer]
            /\ pc' = after
            /\ IF answer.status = "raised"
               THEN /\ report_lines' = Append(header, Line("error", label, 0, <<>>))
                    /\ UNCHANGED <<table_view, bar_view>>
               ELSE IF answer.results = <<>>
               THEN /\ report_lines' = Append(header, Line("no_enrichment", label, 0, <<>>))
                    /\ UNCHANGED <<table_view, bar_view>>
               ELSE LET top == HeadRows(SortValues(answer.results), TopN)
                    IN /\ table_view' = [table_view EXCEPT ![label] = HeadRows(answer.results, TopN)]
                       /\ bar_view' = [bar_view EXCEPT ![label] = top]
                       /\ report_lines' = header \o
                             <<Line("top", label, 0, top), Line("newline", label, 0, <<>>)>>

\* lines 105-134: run_enrichment(gene_set, label); the script goes on at `after`
RunEnrichment(gene_set, label, after) ==
    LET header == Append(report_lines, Line("header", label, 0, <<>>))
    IN IF Len(gene_set) = 0
       THEN /\ report_lines' = Append(header, Line("no_genes", label, 0, <<>>))
            /\ pc' = after
            /\ UNCHANGED <<calls, enr, table_view, bar_view>>
       ELSE \E answer \in SourceOutcomes :
            /\ calls' = [calls EXCEPT ![label] = Append(@, Symbols(gene_set))]
            /\ enr' = [enr EXCEPT ![label] = answer]
            /\ pc' = after
            /\ IF answer.status = "raised"
               THEN /\ report_lines' = Append(header, Line("error", label, 0, <<>>))
                    /\ UNCHANGED <<table_view, bar_view>>
               ELSE IF answer.results = <<>>
               THEN /\ report_lines' = Append(header, Line("no_enrichment", label, 0, <<>>))
                    /\ UNCHANGED <<table_view, bar_view>>
               ELSE LET top == HeadRows(SortValues(answer.results), TopN)
                    IN /\ table_view' = [table_view EXCEPT ![label] = HeadRows(answer.results, TopN)]
                       /\ bar_view' = [bar_view EXCEPT ![label] = top]
                       /\ report_lines' = header \o
                             <<Line("top", label, 0, top), Line("newline", label, 0, <<>>)>>

EnrichUnchanged ==
    UNCHANGED <<consistency_threshold, batch, drug, outcome, files_left,
                drug_warnings, cell_line_data, merged_df, min_consistent,
                consistently_up_genes, consistently_down_genes, consistent_genes,
                linkage_runs>>

\* line 136
EnrichUp ==
    /\ pc = "enrich_up"
    /\ RunEnrichment(consistently_up_genes, "Upregulated", "enrich_down")
    /\ EnrichUnchanged

\* line 137
EnrichDown ==
    /\ pc = "enrich_down"
    /\ RunEnrichment(consistently_down_genes, "Downregulated", "report")
    /\ EnrichUnchanged

\* lines 140-156: the report is assembled and handed over with the merged
\* matrix; run_analysis returns
DownloadReport ==
    /\ pc = "report"
    /\ outcome' = [outcome EXCEPT ![drug] = "analysed"]
    /\ pc' = "next"
    /\ UNCHANGED <<consistency_threshold, batch, drug, files_left, drug_warnings,
                   cell_line_data, merged_df, min_consistent, consistently_up_genes,
                   consistently_down_genes, consistent_genes, linkage_runs,
                   report_lines, calls, enr, table_view, bar_view>>

Next ==
    \/ NoSubzips
    \/ NextDrug
    \/ SkipFile
    \/ LoadFails
    \/ LoadCsv
    \/ Dispatch
    \/ Finish
    \/ RunMerge
    \/ RunFilter
    \/ RunHeatmap
    \/ EnrichUp
    \/ EnrichDown
    \/ DownloadReport

Spec == Init /\ [][Next]_vars

(***************************************************************************)
(* run_analysis alone, on every drug of at most MaxCellLines cell lines    *)
(* whose tables hold at most RowBudget rows in all.                        *)
(***************************************************************************)
RunStart ==
    /\ batch = 1
    /\ drug = 1
    /\ outcome = <<"pending">>
    /\ files_left = 0
    /\ drug_warnings = {}
    /\ pc = "merge"
    /\ merged_df = EmptyFrame
    /\ min_consistent = 0
    /\ consistently_up_genes = <<>>
    /\ consistently_down_genes = <<>>
    /\ consistent_genes = <<>>
    /\ linkage_runs = 0
    /\ report_lines = <<Line("summary", "", 1, <<>>)>>
    /\ calls = [l \in Labels |-> <<>>]
    /\ enr = [l \in Labels |-> NotCalled]
    /\ table_view = EmptyViews
    /\ bar_view = EmptyViews

InitAnalysis ==
    /\ consistency_threshold \in ConsistencyChoices
    /\ RunStart
    /\ \E n \in 1..MaxCellLines :
       \E slots \in SUBSET ((1..n) \X Identities) :
          /\ Cardinality(slots) <= RowBudget
          /\ \E fc \in [slots -> Values] :
                cell_line_data =
                   [i \in 1..n |->
                      Entry(i, Csv(AllColumns,
                                   [k \in {id \in Identities : <<i, id>> \in slots} |->
                                       Row(fc[<<i, k>>], 5)]))]

NextAnalysis ==
    \/ RunMerge
    \/ RunFilter
    \/ RunHeatmap

SpecAnalysis == InitAnalysis /\ [][NextAnalysis]_vars

(***************************************************************************)
(* run_analysis up to the filter, on a drug of ManyLines - 9 to ManyLines   *)
(* cell lines: one gene, above the threshold in the first `up` cell lines  *)
(* and at it in the rest.                                                  *)
(***************************************************************************)
InitManyLines ==
    /\ consistency_threshold \in ConsistencyChoices
    /\ RunStart
    /\ \E n \in (ManyLines - 9)..ManyLines :
       \E up \in 0..n :
          cell_line_data =
             [i \in 1..n |->
                Entry(i, Csv(AllColumns, (G1 :> Row(IF i <= up THEN 15 ELSE 10, 5))))]

NextManyLines ==
    \/ RunMerge
    \/ RunFilter

SpecManyLines == InitManyLines /\ [][NextManyLines]_vars

(***************************************************************************)
(* Properties.                                                             *)
(***************************************************************************)
NumLines == Len(cell_line_data)

TableKeys(i) == DOMAIN cell_line_data[i].df.rows

TableValue(i, k) == cell_line_data[i].df.rows[k].value

InputKeys == UNION {TableKeys(i) : i \in 1..NumLines}

Returned == drug >= 1 /\ pc \in {"next", "done"} /\ outcome[drug] = "analysed"

RaisedInHeatmap == pc = "raised" /\ linkage_runs > 0

MergeDone ==
    \/ pc \in {"filter", "heatmap", "enrich_up", "enrich_down", "report"}
    \/ RaisedInHeatmap
    \/ Returned

FilterDone ==
    \/ pc \in {"heatmap", "enrich_up", "enrich_down", "report"}
    \/ RaisedInHeatmap
    \/ Returned

HeatmapDone ==
    \/ pc \in {"enrich_up", "enrich_down", "report"}
    \/ RaisedInHeatmap
    \/ Returned

EnrichDone(label) ==
    \/ pc = "report"
    \/ Returned
    \/ label = "Upregulated" /\ pc = "enrich_down"

GeneSet(label) ==
    IF label = "Upregulated" THEN consistently_up_genes ELSE consistently_down_genes

CountLines(kind, label) ==
    Cardinality({i \in 1..Len(report_lines) :
                    report_lines[i].kind = kind /\ report_lines[i].label = label})

NoDuplicates(s) == \A i, j \in 1..Len(s) : s[i] = s[j] => i = j

\* The claimed minimum: the floor of the exact product.
FloorMin == (NumLines * consistency_threshold) \div 100

TablesUp(k) ==
    Cardinality({i \in 1..NumLines : k \in TableKeys(i) /\ TableValue(i, k) > log2fc_threshold})

TablesDown(k) ==
    Cardinality({i \in 1..NumLines : k \in TableKeys(i) /\ TableValue(i, k) < 0 - log2fc_threshold})

\* Two tables, the second later in the join order, that know one gene_id
\* under different symbols.
SymbolConflict(i, j, k1, k2) ==
    /\ i < j
    /\ k1 \in TableKeys(i)
    /\ k2 \in TableKeys(j)
    /\ k1[1] = k2[1]
    /\ k1[2] # k2[2]

Conflicts ==
    {c \in (1..NumLines) \X (1..NumLines) \X Identities \X Identities :
        SymbolConflict(c[1], c[2], c[3], c[4])}

\* C1, as claimed: a drug one of whose tables lacks a required column is
\* skipped and does not stop the batch: when its processing has ended, no
\* drug after it is left unprocessed for good.
C1_StructuralErrorSkipsDrug ==
    \A d \in 1..batch :
       (LacksRequired(cell_line_data) /\ pc = "raised" /\ d > drug) =>
          outcome[d] # "pending"

\* C2: a failure of the external source for one label leaves exactly one error
\* line for that label in the report (and none without a failure), never ends
\* the script, and both labels are handled before the report is handed over.
C2_EnrichmentFailureContained ==
    /\ \A l \in Labels :
          /\ enr[l].status = "raised" =>
                /\ CountLines("error", l) = 1
                /\ pc \in {"enrich_down", "report", "next", "done"}
          /\ enr[l].status # "raised" => CountLines("error", l) = 0
    /\ (pc = "report" \/ Returned) => \A l \in Labels : CountLines("header", l) = 1

C2_Witness ==
    /\ pc = "report"
    /\ enr["Upregulated"].status = "raised"
    /\ enr["Downregulated"].status = "returned"
    /\ enr["Downregulated"].results # <<>>
    /\ CountLines("top", "Downregulated") = 1

\* C3, as claimed: the consistently-up (down) genes are exactly the genes above
\* t (below -t) in at least floor(n * pct / 100) cell lines.
C3_ConsistentSetsByFloor ==
    FilterDone =>
       /\ ToSet(consistently_up_genes) = {k \in InputKeys : TablesUp(k) >= FloorMin}
       /\ ToSet(consistently_down_genes) = {k \in InputKeys : TablesDown(k) >= FloorMin}

\* C4: the merged matrix is the full outer join of the tables: its rows are the
\* union of their identities, it has one column per cell line, a cell holds the
\* table's fold change or is missing, and no table has more rows than it.
C4_OuterJoin ==
    MergeDone =>
       /\ ToSet(merged_df.index) = InputKeys
       /\ NoDuplicates(merged_df.index)
       /\ merged_df.columns = [i \in 1..NumLines |-> cell_line_data[i].name]
       /\ \A i \in 1..NumLines :
             /\ Len(merged_df.index) >= Cardinality(TableKeys(i))
             /\ \A k \in InputKeys :
                   Cell(merged_df, k, cell_line_data[i].name) =
                      IF k \in TableKeys(i) THEN <<TableValue(i, k)>> ELSE Missing
       /\ NumLines = 1 => Len(merged_df.index) = Cardinality(TableKeys(1))

C4_Witness ==
    /\ pc = "filter"
    /\ NumLines >= 2
    /\ \E i \in 1..NumLines : Len(merged_df.index) > Cardinality(TableKeys(i))
    /\ \E k \in InputKeys : \E i, j \in 1..NumLines :
          /\ Cell(merged_df, k, cell_line_data[i].name) = Missing
          /\ Present(Cell(merged_df, k, cell_line_data[j].name))

\* C5, as claimed: on a symbol conflict the merged matrix has a single row for
\* the gene_id, under the later table's symbol, with both tables' fold changes.
C5_LastSymbolWins ==
    MergeDone =>
       \A c \in Conflicts :
          /\ Cardinality({k \in ToSet(merged_df.index) : k[1] = c[3][1]}) = 1
          /\ c[4] \in ToSet(merged_df.index)
          /\ Cell(merged_df, c[4], cell_line_data[c[1]].name) = <<TableValue(c[1], c[3])>>
          /\ Cell(merged_df, c[4], cell_line_data[c[2]].name) = <<TableValue(c[2], c[4])>>

\* C5, amended: on a symbol conflict the merged matrix keeps one row per
\* (gene_id, gene_symbol) pair; each row holds the fold change of the table
\* that has this very pair and is missing for a table that has not.
C5_SymbolsKeptApart ==
    MergeDone =>
       \A c \in Conflicts :
          /\ c[3] \in ToSet(merged_df.index)
          /\ c[4] \in ToSet(merged_df.index)
          /\ Cell(merged_df, c[3], cell_line_data[c[1]].name) = <<TableValue(c[1], c[3])>>
          /\ Cell(merged_df, c[4], cell_line_data[c[2]].name) = <<TableValue(c[2], c[4])>>
          /\ c[3] \notin TableKeys(c[2]) =>
                Cell(merged_df, c[3], cell_line_data[c[2]].name) = Missing
          /\ c[4] \notin TableKeys(c[1]) =>
                Cell(merged_df, c[4], cell_line_data[c[1]].name) = Missing

C5_Witness ==
    /\ pc = "filter"
    /\ Conflicts # {}

\* C6: linkage is computed exactly when the union of the two gene sets is not
\* empty; on an empty union the notice is emitted and put in the report, no
\* exception ends the script, and the script goes on to the enrichment.
UnionEmpty == ToSet(consistently_up_genes) \cup ToSet(consistently_down_genes) = {}

C6_ClusteringIffGenes ==
    /\ linkage_runs > 0 => ~UnionEmpty
    /\ HeatmapDone =>
          /\ ~UnionEmpty => linkage_runs > 0
          /\ UnionEmpty =>
                /\ linkage_runs = 0
                /\ CountLines("no_consistent_genes", "") = 1
                /\ "no_consistent_genes" \in drug_warnings
                /\ pc # "raised"
          /\ ~UnionEmpty => CountLines("no_consistent_genes", "") = 0
    /\ (pc = "heatmap" /\ UnionEmpty) => linkage_runs = 0

C6_Witness ==
    /\ pc = "enrich_up"
    /\ UnionEmpty
    /\ Len(merged_df.index) > 0
    /\ linkage_runs = 0
    /\ CountLines("no_consistent_genes", "") = 1

\* C7: the external source is called for a label only on a non-empty gene set,
\* at most once; an empty gene set gets the "no genes available" line; when
\* both labels are done the calls number the non-empty gene sets.
C7_EmptySetNeverCalls ==
    /\ \A l \in Labels :
          /\ Len(calls[l]) <= 1
          /\ GeneSet(l) = <<>> => calls[l] = <<>> /\ enr[l] = NotCalled
          /\ EnrichDone(l) =>
                IF GeneSet(l) = <<>>
                THEN CountLines("no_genes", l) = 1
                ELSE /\ Len(calls[l]) = 1
                     /\ calls[l][1] = Symbols(GeneSet(l))
                     /\ CountLines("no_genes", l) = 0
    /\ pc = "report" =>
          Len(calls["Upregulated"]) + Len(calls["Downregulated"])
             = Cardinality({l \in Labels : GeneSet(l) # <<>>})

C7_Witness ==
    /\ pc = "report"
    /\ consistently_up_genes = <<>>
    /\ consistently_down_genes # <<>>
    /\ calls["Upregulated"] = <<>>
    /\ Len(calls["Downregulated"]) = 1
    /\ CountLines("no_genes", "Upregulated") = 1

\* The rows with the n smallest adjusted p-values, ascending.
IsTop(view, rows, n) ==
    /\ Len(view) = Min(n, Len(rows))
    /\ \A i \in 1..Len(view) : \E j \in 1..Len(rows) : view[i] = rows[j]
    /\ NoDuplicates(view)
    /\ \A i, j \in 1..Len(view) : i < j => view[i].AdjP <= view[j].AdjP
    /\ \A j \in 1..Len(rows) :
          (\A i \in 1..Len(view) : view[i] # rows[j]) =>
             \A i \in 1..Len(view) : view[i].AdjP <= rows[j].AdjP

\* C8, as claimed: every top-10 view of a non-empty result (the table on screen,
\* the bar plot, the report) is the 10 rows of smallest adjusted p-value, ascending.
C8_EveryViewRanked ==
    \A l \in Labels :
       (enr[l].status = "returned" /\ enr[l].results # <<>>) =>
          /\ IsTop(table_view[l], enr[l].results, TopN)
          /\ IsTop(bar_view[l], enr[l].results, TopN)
          /\ \A i \in 1..Len(report_lines) :
                (report_lines[i].kind = "top" /\ report_lines[i].label = l) =>
                   IsTop(report_lines[i].rows, enr[l].results, TopN)

\* C9: the genes handed to clustering are the set union of the two gene sets,
\* each once.
C9_UnionWithoutDuplicates ==
    HeatmapDone =>
       /\ NoDuplicates(consistent_genes)
       /\ ToSet(consistent_genes)
             = ToSet(consistently_up_genes) \cup ToSet(consistently_down_genes)

C9_Witness ==
    /\ HeatmapDone
    /\ min_consistent >= 1
    /\ \E k \in ToSet(consistent_genes) :
          /\ k \in ToSet(consistently_up_genes)
          /\ k \in ToSet(consistently_down_genes)

\* C10: when floor(n * pct / 100) is 0 (n = 1 below 100%, n = 2 below 50%,
\* n = 3 at 30%) every gene of the matrix is in both gene sets whatever its
\* values; when it is at least 1 and twice it exceeds n the sets are disjoint.
C10_ZeroMinimumTakesAll ==
    FilterDone =>
       /\ FloorMin = 0 =>
             /\ ToSet(consistently_up_genes) = ToSet(merged_df.index)
             /\ ToSet(consistently_down_genes) = ToSet(merged_df.index)
       /\ (FloorMin >= 1 /\ 2 * FloorMin > NumLines) =>
             ToSet(consistently_up_genes) \cap ToSet(consistently_down_genes) = {}
       /\ NumLines <= 3 =>
             (min_consistent = 0 <=>
                \/ NumLines = 1 /\ consistency_threshold < 100
                \/ NumLines = 2 /\ consistency_threshold < 50
                \/ NumLines = 3 /\ consistency_threshold = 30)

C10_Witness ==
    /\ pc = "heatmap"
    /\ NumLines = 3
    /\ FloorMin = 0
    /\ \E k \in ToSet(merged_df.index) :
          /\ UpCount(merged_df, k) = 0
          /\ DownCount(merged_df, k) = 0
          /\ k \in ToSet(consistently_up_genes)
          /\ k \in ToSet(consistently_down_genes)

====
